---- MODULE Spec2Model ----
(***************************************************************************)
(* Model of the Wayland tablet-tool event translation of winit             *)
(* (src/platform_impl/linux/wayland/tablet.rs): the per-tool accumulator   *)
(* ToolState, the write-once tool identity of ToolData, and the Dispatch   *)
(* handler for ZwpTabletToolV2 events that pushes pointer events to the    *)
(* event sink.                                                             *)
(***************************************************************************)
EXTENDS Integers, Sequences, FiniteSets, TLC

(* Option<T>: None is the empty sequence, Some(x) the one-element one. *)
None == <<>>
Some(x) == <<x>>

(* ------------------------------------------------------------------ *)
(* Inputs                                                              *)
(* ------------------------------------------------------------------ *)

(* crate::event::Tool, the keys of TabletState.tools. *)
Tool == {"Pen", "Eraser"}

(* zwp_tablet_tool_v2::Type tags a Type event can carry; "Finger" stands   *)
(* for every tag that is neither Pen nor Eraser.                           *)
TypeTags == {"Pen", "Eraser", "Finger"}

(* The tool proxies, each with its own ToolData. *)
Handles == {"h1", "h2"}

(* The surfaces a ProximityIn can name. *)
Surfaces == {"S1", "S2"}

(* state.windows: the windows the scale-factor lookup knows ("S2" is a     *)
(* surface without a window), with their scale factors.                    *)
WindowSurfaces == {"S1"}

(* Raw pressure values of Event::Pressure. *)
MaxRaw == 65535
PressureValues == {0, MaxRaw}

(* Tilt pairs of Event::Tilt. *)
TiltValues == {[angle_x |-> 10, angle_y |-> -20]}

(* Logical positions of Event::Motion. *)
LogicalPositions == {[x |-> 3, y |-> 4]}

(* ------------------------------------------------------------------ *)
(* State                                                               *)
(* ------------------------------------------------------------------ *)
VARIABLES
    tool_type,    \* ToolData.tool_type of each handle: Option<Tool>, write-once
    tools,        \* TabletState.tools: Tool -> Option<ToolState> (None: no entry)
    events_sink,  \* the window events pushed by the handler that ran last
    panicked,     \* an unwrap() of the handler failed: the thread panicked
    dispatched,   \* history: the kind of the inbound event handled last
    batch,        \* history: per handle, the property updates since its last Frame
    received,     \* history: the raw pressure last received since the last Frame
    motion_from,  \* history: the owning surface when the pending motion was stored
    prox_log      \* history: the last two proximity events pushed (their kinds)

vars == <<tool_type, tools, events_sink, panicked, dispatched, batch,
          received, motion_from, prox_log>>

(* ToolState::default() *)
ToolStateDefault ==
    [surface |-> None, pressure |-> None, tilt |-> None, motion |-> None,
     down |-> FALSE, up |-> FALSE]

(* wayland::make_wid: the window id made from a surface. *)
make_wid(surface) == <<"WindowId", surface>>

(* state.windows: the ids of the windows the lookup finds. *)
KnownWindows == {make_wid(s) : s \in WindowSurfaces}

(* WindowState::scale_factor of a known window. *)
scale_factor(window_id) == IF window_id = make_wid("S1") THEN 2 ELSE 1

(* LogicalPosition::to_physical *)
to_physical(location, sf) == [x |-> location.x * sf, y |-> location.y * sf]

(* Variant: the pressure is divided by the signed 16-bit full scale. *)
Normalized_HalfScale(pressure) == [num |-> pressure, den |-> 32767]

(* Force::Normalized(pressure as f64 / 65535.0), kept as an exact fraction. *)
Normalized(pressure) == [num |-> pressure, den |-> MaxRaw]

(* ToolData::state_mut succeeds: the identity is latched and has an entry. *)
state_mut_ok(h) ==
    /\ tool_type[h] # None
    /\ tools[tool_type[h][1]] # None

(* ToolData::state_mut: the ToolState of the handle's latched identity. *)
state_mut(h) == tools[tool_type[h][1]][1]

(* Assignment through the reference state_mut returns. *)
WithState(h, ts) == [tools EXCEPT ![tool_type[h][1]] = Some(ts)]

(* A handler whose state_mut unwrap fails: the thread panics. *)
Panic ==
    /\ panicked' = TRUE
    /\ events_sink' = <<>>
    /\ UNCHANGED <<tool_type, tools>>

Init ==
    /\ tool_type = [h \in Handles |-> None]
    /\ tools = [t \in Tool |-> None]
    /\ events_sink = <<>>
    /\ panicked = FALSE
    /\ dispatched = "None"
    /\ batch = [h \in Handles |-> "empty"]
    /\ received = None
    /\ motion_from = None
    /\ prox_log = <<>>

(* ------------------------------------------------------------------ *)
(* Identity                                                            *)
(* ------------------------------------------------------------------ *)

(* OnceCell::get_or_init: the first value stays. *)
get_or_init(cell, ty) == IF cell = None THEN Some(ty) ELSE cell

(* Variant: the entry is not inserted. *)
InsertDefault_Missing(map, ty) == map

(* HashMap::insert(ty, ToolState::default()) *)
InsertDefault(map, ty) == [map EXCEPT ![ty] = Some(ToolStateDefault)]

(* Variant: an unrecognized tag is taken for a pen. *)
Type_FallbackPen(h, ty) ==
    /\ ~panicked
    /\ dispatched' = "Type"
    /\ events_sink' = <<>>
    /\ UNCHANGED panicked
    /\ LET tool == IF ty \in Tool THEN ty ELSE "Pen" IN
       /\ tool_type' = [tool_type EXCEPT ![h] = get_or_init(tool_type[h], tool)]
       /\ tools' = [tools EXCEPT ![tool] = Some(ToolStateDefault)]

(* Event::Type *)
Type(h, ty) ==
    /\ ~panicked
    /\ dispatched' = "Type"
    /\ events_sink' = <<>>
    /\ UNCHANGED panicked
    /\ IF ty \in Tool
       THEN /\ tool_type' = [tool_type EXCEPT ![h] = get_or_init(tool_type[h], ty)]
            /\ tools' = InsertDefault(tools, ty)
       ELSE UNCHANGED <<tool_type, tools>>

(* ------------------------------------------------------------------ *)
(* Property updates                                                    *)
(* ------------------------------------------------------------------ *)

(* Event::Pressure *)
Pressure(h, pressure) ==
    /\ ~panicked
    /\ dispatched' = "Pressure"
    /\ IF state_mut_ok(h)
       THEN /\ tools' = WithState(h, [state_mut(h) EXCEPT !.pressure = Some(pressure)])
            /\ events_sink' = <<>>
            /\ UNCHANGED <<tool_type, panicked>>
       ELSE Panic

(* Event::Tilt *)
Tilt(h, tilt) ==
    /\ ~panicked
    /\ dispatched' = "Tilt"
    /\ IF state_mut_ok(h)
       THEN /\ tools' = WithState(h, [state_mut(h) EXCEPT !.tilt = Some(tilt)])
            /\ events_sink' = <<>>
            /\ UNCHANGED <<tool_type, panicked>>
       ELSE Panic

(* Variant: a surface without a window is scaled by 1 instead of dropped. *)
MotionState_DefaultScale(ts, location) ==
    IF ts.surface = None THEN ts
    ELSE [ts EXCEPT !.motion =
            Some(to_physical(location,
                   IF make_wid(ts.surface[1]) \in KnownWindows
                   THEN scale_factor(make_wid(ts.surface[1])) ELSE 1))]

(* The pending motion after Event::Motion { x, y }. *)
MotionState(ts, location) ==
    IF ts.surface = None THEN ts
    ELSE IF make_wid(ts.surface[1]) \notin KnownWindows THEN ts
    ELSE [ts EXCEPT !.motion =
            Some(to_physical(location, scale_factor(make_wid(ts.surface[1]))))]

(* Event::Motion *)
Motion(h, location) ==
    /\ ~panicked
    /\ dispatched' = "Motion"
    /\ IF state_mut_ok(h)
       THEN /\ tools' = WithState(h, MotionState(state_mut(h), location))
            /\ events_sink' = <<>>
            /\ UNCHANGED <<tool_type, panicked>>
       ELSE Panic

(* Event::Down *)
Down(h) ==
    /\ ~panicked
    /\ dispatched' = "Down"
    /\ IF state_mut_ok(h)
       THEN /\ tools' = WithState(h, [state_mut(h) EXCEPT !.down = TRUE])
            /\ events_sink' = <<>>
            /\ UNCHANGED <<tool_type, panicked>>
       ELSE Panic

(* Event::Up *)
Up(h) ==
    /\ ~panicked
    /\ dispatched' = "Up"
    /\ IF state_mut_ok(h)
       THEN /\ tools' = WithState(h, [state_mut(h) EXCEPT !.up = TRUE])
            /\ events_sink' = <<>>
            /\ UNCHANGED <<tool_type, panicked>>
       ELSE Panic

(* ------------------------------------------------------------------ *)
(* Proximity                                                           *)
(* ------------------------------------------------------------------ *)

(* WindowEvent::Pointer { device_id, pointer_id: PointerId::Pen { tool }, event } *)
(* as pushed with its window id.                                        *)
PointerEvent(tool, window_id, event) ==
    [window_id |-> window_id, pointer_id |-> [Pen |-> tool], event |-> event]

(* PointerEvent::Entered *)
Entered == [kind |-> "Entered"]

(* PointerEvent::Left *)
Left == [kind |-> "Left"]

(* Variant: the surface of the first ProximityIn stays. *)
ProximityInState_KeepFirst(ts, surface) ==
    IF ts.surface = None THEN [ts EXCEPT !.surface = Some(surface)] ELSE ts

(* tool_state.surface = Some(surface) *)
ProximityInState(ts, surface) == [ts EXCEPT !.surface = Some(surface)]

(* What Event::ProximityIn pushes. *)
ProximityInEvents(tool, surface) ==
    <<PointerEvent(tool, make_wid(surface), Entered)>>

(* Event::ProximityIn *)
ProximityIn(h, surface) ==
    /\ ~panicked
    /\ dispatched' = "ProximityIn"
    /\ IF state_mut_ok(h)
       THEN /\ tools' = WithState(h, ProximityInState(state_mut(h), surface))
            /\ events_sink' = ProximityInEvents(tool_type[h][1], surface)
            /\ UNCHANGED <<tool_type, panicked>>
       ELSE Panic

(* The ToolState Event::ProximityOut leaves behind. *)
ProximityOutState(ts) == ts

(* Variant: ProximityOut pushes nothing. *)
ProximityOutEvents_Silent(ts, tool) == <<>>

(* What Event::ProximityOut pushes. *)
ProximityOutEvents(ts, tool) ==
    IF ts.surface = None THEN <<>>
    ELSE <<PointerEvent(tool, make_wid(ts.surface[1]), Left)>>

(* Event::ProximityOut *)
ProximityOut(h) ==
    /\ ~panicked
    /\ dispatched' = "ProximityOut"
    /\ IF state_mut_ok(h)
       THEN /\ tools' = WithState(h, ProximityOutState(state_mut(h)))
            /\ events_sink' = ProximityOutEvents(state_mut(h), tool_type[h][1])
            /\ UNCHANGED <<tool_type, panicked>>
       ELSE Panic

(* ------------------------------------------------------------------ *)
(* Frame                                                               *)
(* ------------------------------------------------------------------ *)

(* tool_state.pressure.take().map(|p| Force::Normalized(p as f64 / 65535.0)) *)
FrameForce(ts) ==
    IF ts.pressure = None THEN None ELSE Some(Normalized(ts.pressure[1]))

(* Variant: the release wins when both contact flags are pending. *)
ElementState_UpFirst(down, up) == IF up THEN "Released" ELSE "Pressed"

(* if down { ElementState::Pressed } else { ElementState::Released } *)
ElementState(down, up) == IF down THEN "Pressed" ELSE "Released"

(* PointerEvent::Button { button: Pen(Touch), state, position, force, tilt } *)
Button(state, position, force, tilt) ==
    [kind |-> "Button", button |-> "Touch", state |-> state,
     position |-> position, force |-> force, tilt |-> tilt]

(* Variant: a Moved that loses the force. *)
Moved_NoForce(position, force, tilt) ==
    [kind |-> "Moved", position |-> position, force |-> None, tilt |-> tilt]

(* PointerEvent::Moved { position, force, tilt } *)
Moved(position, force, tilt) ==
    [kind |-> "Moved", position |-> position, force |-> force, tilt |-> tilt]

(* Variant: the button branch neither takes the motion nor returns. *)
FrameEvents_NoReturn(ts, tool) ==
    IF ts.surface = None THEN <<>>
    ELSE (IF ts.down \/ ts.up
          THEN <<PointerEvent(tool, make_wid(ts.surface[1]),
                   Button(ElementState(ts.down, ts.up), ts.motion, FrameForce(ts), ts.tilt))>>
          ELSE <<>>)
         \o (IF ts.motion # None
             THEN <<PointerEvent(tool, make_wid(ts.surface[1]),
                      Moved(ts.motion[1], FrameForce(ts), ts.tilt))>>
             ELSE <<>>)

(* What Event::Frame pushes for a tool whose ToolState is ts. *)
FrameEvents(ts, tool) ==
    IF ts.surface = None THEN <<>>
    ELSE IF ts.down \/ ts.up
    THEN <<PointerEvent(tool, make_wid(ts.surface[1]),
             Button(ElementState(ts.down, ts.up), ts.motion, FrameForce(ts), ts.tilt))>>
    ELSE IF ts.motion # None
    THEN <<PointerEvent(tool, make_wid(ts.surface[1]),
             Moved(ts.motion[1], FrameForce(ts), ts.tilt))>>
    ELSE <<>>

(* Variant: the frame resets the whole ToolState, the surface included. *)
FrameState_ResetAll(ts) == IF ts.surface = None THEN ts ELSE ToolStateDefault

(* The ToolState Event::Frame leaves behind: the take()s of a frame that   *)
(* has a surface; an early return without one.                             *)
FrameState(ts) ==
    IF ts.surface = None THEN ts
    ELSE [ts EXCEPT !.pressure = None, !.tilt = None, !.motion = None,
                    !.down = FALSE, !.up = FALSE]

(* Event::Frame *)
Frame(h) ==
    /\ ~panicked
    /\ dispatched' = "Frame"
    /\ IF state_mut_ok(h)
       THEN /\ tools' = WithState(h, FrameState(state_mut(h)))
            /\ events_sink' = FrameEvents(state_mut(h), tool_type[h][1])
            /\ UNCHANGED <<tool_type, panicked>>
       ELSE Panic

(* ------------------------------------------------------------------ *)
(* Specifications                                                      *)
(* ------------------------------------------------------------------ *)

(* The batch of a handle after one more event of the given kind. *)
BatchAfter(b, kind) ==
    CASE kind = "Frame" -> "empty"
      [] kind = "Pressure" -> IF b = "mixed" THEN "mixed" ELSE "pressure"
      [] kind \in {"Tilt", "Motion", "Down", "Up"} -> "mixed"
      [] OTHER -> b

Track(h, kind) == batch' = [batch EXCEPT ![h] = BatchAfter(batch[h], kind)]

(* No history is recorded. *)
Untracked == UNCHANGED <<batch, received, motion_from, prox_log>>

(* Only the batches are recorded. *)
TrackBatch(h, kind) ==
    /\ Track(h, kind)
    /\ UNCHANGED <<received, motion_from, prox_log>>

(* One inbound event is dispatched to completion (batches not recorded). *)
Next ==
    \/ \E h \in Handles, ty \in TypeTags : Type(h, ty) /\ Untracked
    \/ \E h \in Handles, p \in PressureValues : Pressure(h, p) /\ Untracked
    \/ \E h \in Handles, t \in TiltValues : Tilt(h, t) /\ Untracked
    \/ \E h \in Handles, l \in LogicalPositions : Motion(h, l) /\ Untracked
    \/ \E h \in Handles : Down(h) /\ Untracked
    \/ \E h \in Handles : Up(h) /\ Untracked
    \/ \E h \in Handles, s \in Surfaces : ProximityIn(h, s) /\ Untracked
    \/ \E h \in Handles : ProximityOut(h) /\ Untracked
    \/ \E h \in Handles : Frame(h) /\ Untracked

Spec == Init /\ [][Next]_vars

(* The same dispatch, recording each handle's batch. *)
NextBatch ==
    \/ \E h \in Handles, ty \in TypeTags : Type(h, ty) /\ TrackBatch(h, "Type")
    \/ \E h \in Handles, p \in PressureValues : Pressure(h, p) /\ TrackBatch(h, "Pressure")
    \/ \E h \in Handles, t \in TiltValues : Tilt(h, t) /\ TrackBatch(h, "Tilt")
    \/ \E h \in Handles, l \in LogicalPositions : Motion(h, l) /\ TrackBatch(h, "Motion")
    \/ \E h \in Handles : Down(h) /\ TrackBatch(h, "Down")
    \/ \E h \in Handles : Up(h) /\ TrackBatch(h, "Up")
    \/ \E h \in Handles, s \in Surfaces : ProximityIn(h, s) /\ TrackBatch(h, "ProximityIn")
    \/ \E h \in Handles : ProximityOut(h) /\ TrackBatch(h, "ProximityOut")
    \/ \E h \in Handles : Frame(h) /\ TrackBatch(h, "Frame")

SpecBatch == Init /\ [][NextBatch]_vars

(* The handle whose history SpecHistory records. *)
HistoryHandle == "h1"

(* The last two elements of a sequence. *)
LastTwo(seq) == IF Len(seq) <= 2 THEN seq ELSE SubSeq(seq, Len(seq) - 1, Len(seq))

(* The history after the handler of an event of the given kind (with its   *)
(* argument, if any) on handle h.                                          *)
TrackHistory(h, kind, arg) ==
    /\ received' =
         CASE kind = "Pressure" /\ state_mut_ok(h) -> Some(arg)
           [] kind = "Frame" -> None
           [] OTHER -> received
    /\ motion_from' =
         CASE kind = "Motion" /\ state_mut_ok(h)
                /\ MotionState(state_mut(h), arg) # state_mut(h) -> state_mut(h).surface
           [] kind = "Motion" /\ state_mut_ok(h) /\ state_mut(h).motion # None
                /\ state_mut(h).surface # None
                /\ make_wid(state_mut(h).surface[1]) \in KnownWindows
                -> state_mut(h).surface
           [] kind = "Frame" /\ state_mut_ok(h) /\ state_mut(h).surface # None -> None
           [] kind = "Type" /\ tool_type'[h] = Some(arg) -> None
           [] OTHER -> motion_from
    /\ prox_log' =
         IF kind \in {"ProximityIn", "ProximityOut"} /\ events_sink' # << >>
         THEN LastTwo(Append(prox_log, events_sink'[1].event.kind))
         ELSE prox_log
    /\ UNCHANGED batch

(* The events of a single tool handle, with their history. *)
NextHistory ==
    \/ \E ty \in TypeTags :
          Type(HistoryHandle, ty) /\ TrackHistory(HistoryHandle, "Type", ty)
    \/ \E p \in PressureValues :
          Pressure(HistoryHandle, p) /\ TrackHistory(HistoryHandle, "Pressure", p)
    \/ \E t \in TiltValues :
          Tilt(HistoryHandle, t) /\ TrackHistory(HistoryHandle, "Tilt", t)
    \/ \E l \in LogicalPositions :
          Motion(HistoryHandle, l) /\ TrackHistory(HistoryHandle, "Motion", l)
    \/ Down(HistoryHandle) /\ TrackHistory(HistoryHandle, "Down", None)
    \/ Up(HistoryHandle) /\ TrackHistory(HistoryHandle, "Up", None)
    \/ \E s \in Surfaces :
          ProximityIn(HistoryHandle, s) /\ TrackHistory(HistoryHandle, "ProximityIn", s)
    \/ ProximityOut(HistoryHandle) /\ TrackHistory(HistoryHandle, "ProximityOut", None)
    \/ Frame(HistoryHandle) /\ TrackHistory(HistoryHandle, "Frame", None)

SpecHistory == Init /\ [][NextHistory]_vars

(* A pen in proximity of S1, with or without a pending contact-down and a  *)
(* pending motion, before the pressure of the frame arrives.               *)
InitForce ==
    /\ tool_type = [h \in Handles |-> IF h = "h1" THEN Some("Pen") ELSE None]
    /\ \E down \in BOOLEAN, l \in LogicalPositions, moved \in BOOLEAN :
          /\ tools = [t \in Tool |->
                IF t = "Pen"
                THEN Some([ToolStateDefault EXCEPT
                             !.surface = Some("S1"),
                             !.down = down,
                             !.motion = IF moved
                                        THEN Some(to_physical(l, scale_factor(make_wid("S1"))))
                                        ELSE None])
                ELSE None]
          /\ dispatched = IF down THEN "Down" ELSE IF moved THEN "Motion" ELSE "ProximityIn"
    /\ events_sink = <<>>
    /\ panicked = FALSE
    /\ batch = [h \in Handles |-> "empty"]
    /\ received = None
    /\ motion_from = None
    /\ prox_log = <<>>

(* One raw pressure out of the whole range is reported, then the frame is  *)
(* committed.                                                              *)
NextForce ==
    \/ /\ dispatched # "Frame"
       /\ state_mut("h1").pressure = None
       /\ \E r \in 0..MaxRaw : Pressure("h1", r)
       /\ Untracked
    \/ /\ state_mut("h1").pressure # None
       /\ Frame("h1")
       /\ Untracked

SpecForce == InitForce /\ [][NextForce]_vars
(* ------------------------------------------------------------------ *)
(* Properties                                                          *)
(* ------------------------------------------------------------------ *)

(* The latched identity of an identified handle, and its ToolState after   *)
(* the step.                                                               *)
ToolOf(h) == tool_type[h][1]
StateAfter(h) == tools'[tool_type[h][1]][1]

(* The force an event is expected to carry for a pending raw pressure. *)
ExpectedForce(pressure) ==
    IF pressure = None THEN None ELSE Some([num |-> pressure[1], den |-> 65535])

(* C1: a frame handled for a tool that has an owning surface and a pending *)
(* contact-down or contact-up pushes exactly one Button event, Pressed if  *)
(* contact-down was pending (also with contact-up pending) and Released    *)
(* otherwise, carrying the pending motion, force and tilt (each possibly   *)
(* absent), and no Moved event.                                            *)
C1_FrameButton ==
    [][\A h \in Handles :
        (/\ Frame(h)
         /\ state_mut_ok(h)
         /\ state_mut(h).surface # None
         /\ (state_mut(h).down \/ state_mut(h).up))
        => events_sink' =
             << [window_id |-> make_wid(state_mut(h).surface[1]),
                 pointer_id |-> [Pen |-> ToolOf(h)],
                 event |-> [kind |-> "Button", button |-> "Touch",
                            state |-> IF state_mut(h).down THEN "Pressed"
                                      ELSE "Released",
                            position |-> state_mut(h).motion,
                            force |-> ExpectedForce(state_mut(h).pressure),
                            tilt |-> state_mut(h).tilt]] >>
      ]_vars

(* A Released button event carrying a position, a force and a tilt has     *)
(* just been pushed.                                                       *)
C1_Witness ==
    /\ dispatched = "Frame"
    /\ Len(events_sink) = 1
    /\ events_sink[1].event.kind = "Button"
    /\ events_sink[1].event.state = "Released"
    /\ events_sink[1].event.position # None
    /\ events_sink[1].event.force # None
    /\ events_sink[1].event.tilt # None

(* C2: a frame handled for a tool that has an owning surface and no        *)
(* pending contact flag pushes exactly one Moved event with the pending    *)
(* position, force and tilt if a motion is pending, and nothing otherwise  *)
(* (also when pressure or tilt is pending).                                *)
C2_FrameMoved ==
    [][\A h \in Handles :
        (/\ Frame(h)
         /\ state_mut_ok(h)
         /\ state_mut(h).surface # None
         /\ ~state_mut(h).down
         /\ ~state_mut(h).up)
        => events_sink' =
             IF state_mut(h).motion # None
             THEN << [window_id |-> make_wid(state_mut(h).surface[1]),
                      pointer_id |-> [Pen |-> ToolOf(h)],
                      event |-> [kind |-> "Moved",
                                 position |-> state_mut(h).motion[1],
                                 force |-> ExpectedForce(state_mut(h).pressure),
                                 tilt |-> state_mut(h).tilt]] >>
             ELSE << >>
      ]_vars

(* A Moved event carrying a force has just been pushed. *)
C2_Witness ==
    /\ dispatched = "Frame"
    /\ Len(events_sink) = 1
    /\ events_sink[1].event.kind = "Moved"
    /\ events_sink[1].event.force # None

(* C3: handling one frame pushes at most one event. *)
C3_FrameAtMostOne ==
    [][\A h \in Handles : Frame(h) => Len(events_sink') <= 1]_vars

(* A frame has pushed a Pressed button event that also carries a position. *)
C3_Witness ==
    /\ dispatched = "Frame"
    /\ Len(events_sink) = 1
    /\ events_sink[1].event.kind = "Button"
    /\ events_sink[1].event.state = "Pressed"
    /\ events_sink[1].event.position # None

(* C4: after every frame handled for an identified tool, with or without   *)
(* an owning surface, the tool's pending pressure, tilt and motion are     *)
(* absent and both contact flags are false.                                *)
C4_FrameClearsPending ==
    [][\A h \in Handles :
        (Frame(h) /\ state_mut_ok(h))
        => /\ StateAfter(h).pressure = None
           /\ StateAfter(h).tilt = None
           /\ StateAfter(h).motion = None
           /\ ~StateAfter(h).down
           /\ ~StateAfter(h).up
      ]_vars

(* C5: a ProximityOut leaves the tool without an owning surface, so the    *)
(* frame handled right after the ProximityOut that pushed Left for the     *)
(* tool (no ProximityIn in between) pushes no Moved and no Button event,   *)
(* whatever is pending.                                                    *)
C5_NoEventAfterProximityOut ==
    [][\A h \in Handles :
        (/\ Frame(h)
         /\ state_mut_ok(h)
         /\ Len(events_sink) = 1
         /\ events_sink[1].event.kind = "Left"
         /\ events_sink[1].pointer_id = [Pen |-> ToolOf(h)])
        => events_sink' = << >>
      ]_vars

(* C6: a Type event on a handle whose identity is latched changes neither  *)
(* a latched identity nor any ToolState, and creates none.                 *)
C6_LaterTypeIgnored ==
    [][\A h \in Handles, ty \in TypeTags :
        (tool_type[h] # None /\ Type(h, ty)) => UNCHANGED <<tool_type, tools>>
      ]_vars

(* C7: no handler fails, whatever handle and state the event arrives in. *)
C7_NeverPanics == ~panicked

(* C8: ProximityIn(S) for an identified tool records S as the owning       *)
(* surface and pushes, in the same step, exactly one Entered event with    *)
(* the latched identity for S.                                             *)
C8_ProximityInEnters ==
    [][\A h \in Handles, surface \in Surfaces :
        (ProximityIn(h, surface) /\ state_mut_ok(h))
        => /\ StateAfter(h).surface = Some(surface)
           /\ events_sink' =
                << [window_id |-> make_wid(surface),
                    pointer_id |-> [Pen |-> ToolOf(h)],
                    event |-> [kind |-> "Entered"]] >>
      ]_vars

(* The Eraser has just entered S2 over S1, with a pressure and a contact   *)
(* pending.                                                                *)
C8_Witness ==
    /\ dispatched = "ProximityIn"
    /\ Len(events_sink) = 1
    /\ events_sink[1].event.kind = "Entered"
    /\ events_sink[1].pointer_id = [Pen |-> "Eraser"]
    /\ events_sink[1].window_id = make_wid("S2")
    /\ tools["Eraser"] # None
    /\ tools["Eraser"][1].surface = Some("S2")
    /\ tools["Eraser"][1].pressure # None
    /\ tools["Eraser"][1].down

(* C9: ProximityOut for an identified tool pushes exactly one Left event   *)
(* for the recorded owning surface; without a recorded surface it pushes   *)
(* nothing and changes no state; it never changes another tool's state.    *)
C9_ProximityOutLeaves ==
    [][\A h \in Handles :
        (ProximityOut(h) /\ state_mut_ok(h))
        => /\ state_mut(h).surface # None
              => events_sink' =
                   << [window_id |-> make_wid(state_mut(h).surface[1]),
                       pointer_id |-> [Pen |-> ToolOf(h)],
                       event |-> [kind |-> "Left"]] >>
           /\ state_mut(h).surface = None
              => (events_sink' = << >> /\ UNCHANGED <<tool_type, tools>>)
           /\ \A t \in Tool \ {ToolOf(h)} : tools'[t] = tools[t]
           /\ UNCHANGED tool_type
      ]_vars

(* The Pen has just left S1 while the Eraser holds pending state. *)
C9_Witness ==
    /\ dispatched = "ProximityOut"
    /\ Len(events_sink) = 1
    /\ events_sink[1].event.kind = "Left"
    /\ events_sink[1].pointer_id = [Pen |-> "Pen"]
    /\ events_sink[1].window_id = make_wid("S1")
    /\ tools["Eraser"] # None
    /\ tools["Eraser"][1].motion # None

(* C10: a frame whose batch holds only pressure updates, with no motion    *)
(* pending, pushes no event.                                               *)
C10_PressureOnlyFrameSilent ==
    [][\A h \in Handles :
        (/\ Frame(h)
         /\ state_mut_ok(h)
         /\ batch[h] = "pressure"
         /\ state_mut(h).motion = None)
        => events_sink' = << >>
      ]_vars

(* Some inbound event is handled on handle h. *)
EventOn(h) ==
    \/ \E ty \in TypeTags : Type(h, ty)
    \/ \E p \in PressureValues : Pressure(h, p)
    \/ \E t \in TiltValues : Tilt(h, t)
    \/ \E l \in LogicalPositions : Motion(h, l)
    \/ Down(h)
    \/ Up(h)
    \/ \E surface \in Surfaces : ProximityIn(h, surface)
    \/ ProximityOut(h)
    \/ Frame(h)

(* A property update (pressure, tilt, motion, contact) is handled on h. *)
PropertyUpdateOn(h) ==
    \/ \E p \in PressureValues : Pressure(h, p)
    \/ \E t \in TiltValues : Tilt(h, t)
    \/ \E l \in LogicalPositions : Motion(h, l)
    \/ Down(h)
    \/ Up(h)

(* C11: a Motion handled while the tool has no owning surface, or while    *)
(* the owning surface has no window for the scale-factor lookup, pushes no *)
(* event and leaves every ToolState and identity as it was, so nothing of  *)
(* it is left to appear in a later event.                                  *)
C11_MotionDropped ==
    [][\A h \in Handles, l \in LogicalPositions :
        (/\ Motion(h, l)
         /\ state_mut_ok(h)
         /\ \/ state_mut(h).surface = None
            \/ make_wid(state_mut(h).surface[1]) \notin KnownWindows)
        => (events_sink' = << >> /\ UNCHANGED <<tool_type, tools>>)
      ]_vars

(* A Motion has just been handled for a tool over the window-less S2 and   *)
(* no tool holds a pending motion.                                         *)
C11_Witness ==
    /\ dispatched = "Motion"
    /\ ~panicked
    /\ \A t \in Tool : tools[t] # None => tools[t][1].motion = None
    /\ \A h \in Handles : tool_type[h] # None => state_mut(h).surface = Some("S2")
    /\ \E h \in Handles : tool_type[h] # None

(* C12: an event handled on one handle changes neither the owning surface  *)
(* nor a pending field of the ToolState another handle uses, also when     *)
(* both handles announced the same tool type.                              *)
C12_NoCrossHandleEffect ==
    [][\A h \in Handles, g \in Handles :
        (h # g /\ EventOn(h) /\ state_mut_ok(g))
        => /\ tool_type'[g] = tool_type[g]
           /\ tools'[tool_type[g][1]] = tools[tool_type[g][1]]
      ]_vars

(* C13: a ToolState is registered under a Tool only if some handle has     *)
(* latched that Tool.                                                      *)
C13_StateOnlyForLatched ==
    \A t \in Tool : tools[t] # None => \E h \in Handles : tool_type[h] = Some(t)

(* C14: a Type event with an unrecognized tag latches nothing, creates or  *)
(* resets no ToolState and pushes nothing, and no event handled on a       *)
(* handle without a latched identity pushes an event.                      *)
C14_UnrecognizedTagIgnored ==
    [][\A h \in Handles :
        /\ \A ty \in TypeTags \ Tool :
              Type(h, ty)
              => (events_sink' = << >> /\ UNCHANGED <<tool_type, tools, panicked>>)
        /\ (tool_type[h] = None /\ tool_type'[h] = None /\ EventOn(h))
           => events_sink' = << >>
      ]_vars

(* A Type event has just been handled and left a handle without identity   *)
(* next to an identified tool that holds pending state.                    *)
C14_Witness ==
    /\ dispatched = "Type"
    /\ tool_type["h1"] = None
    /\ tool_type["h2"] = Some("Pen")
    /\ tools["Pen"][1].surface # None
    /\ tools["Pen"][1].pressure # None

(* C18 (the Left half): no Left is pushed for a tool without a preceding  *)
(* unmatched Entered, so the proximity events pushed for the tool never    *)
(* begin with a Left nor hold two Left in a row.                           *)
C18_EnteredLeftAlternate ==
    /\ prox_log # <<"Left">>
    /\ prox_log # <<"Left", "Left">>

(* C15: for every raw pressure r of 0..65535, the frame that pushes an     *)
(* event pushes it with the force r/65535, which lies in [0, 1]: 0 for     *)
(* r = 0 and 1 for r = 65535.                                              *)
C15_ForceNormalized ==
    [][(/\ Frame("h1")
        /\ state_mut("h1").pressure # None
        /\ state_mut("h1").pressure[1] \in 0..65535
        /\ events_sink' # << >>)
       => LET r == state_mut("h1").pressure[1]
              force == events_sink'[1].event.force
          IN /\ force = Some([num |-> r, den |-> 65535])
             /\ 0 <= force[1].num
             /\ force[1].num <= force[1].den
             /\ r = 0 => force[1].num = 0
             /\ r = 65535 => force[1].num = force[1].den
      ]_vars

(* A frame has just pushed a Moved event with the full-scale force. *)
C15_Witness ==
    /\ dispatched = "Frame"
    /\ Len(events_sink) = 1
    /\ events_sink[1].event.kind = "Moved"
    /\ events_sink[1].event.force # None
    /\ events_sink[1].event.force[1].num = 65535

(* C16: the position a frame pushes in a Moved or Button event was stored  *)
(* while the tool's owning surface was the surface the event goes to.      *)
C16_PositionFromTargetSurface ==
    [][(/\ Frame(HistoryHandle)
        /\ state_mut_ok(HistoryHandle)
        /\ state_mut(HistoryHandle).surface # None
        /\ state_mut(HistoryHandle).motion # None
        /\ events_sink' # << >>)
       => /\ events_sink'[1].window_id = make_wid(state_mut(HistoryHandle).surface[1])
          /\ motion_from = state_mut(HistoryHandle).surface
      ]_vars

(* C17 (pressure): the event pushed at a frame carries the value of the    *)
(* last pressure update received since the previous frame.                 *)
C17_LastPressureCarried ==
    [][(/\ Frame(HistoryHandle)
        /\ state_mut_ok(HistoryHandle)
        /\ received # None
        /\ events_sink' # << >>)
       => events_sink'[1].event.force = ExpectedForce(received)
      ]_vars

(* C19: every handle with a latched identity has a ToolState registered    *)
(* under it, so the lookup of state_mut succeeds; entries are never        *)
(* removed.                                                                *)
C19_LatchedHasState ==
    [][/\ \A h \in Handles :
            tool_type'[h] # None => tools'[tool_type'[h][1]] # None
       /\ \A t \in Tool : tools[t] # None => tools'[t] # None
      ]_vars

(* Both handles are latched, on different tools, and a frame has just been *)
(* handled without a panic.                                                *)
C19_Witness ==
    /\ dispatched = "Frame"
    /\ ~panicked
    /\ tool_type["h1"] = Some("Eraser")
    /\ tool_type["h2"] = Some("Pen")
    /\ tools["Eraser"] # None
    /\ tools["Pen"] # None

(* C20: a Frame (emitting, silent or discarded) and every property update  *)
(* leave the owning surface of every tool as it was.                       *)
C20_SurfacePersistent ==
    [][\A h \in Handles :
        (Frame(h) \/ PropertyUpdateOn(h))
        => \A t \in Tool :
             tools[t] # None
             => (tools'[t] # None /\ tools'[t][1].surface = tools[t][1].surface)
      ]_vars

(* A frame has just pushed a Moved event for the Eraser, which still owns  *)
(* S1.                                                                     *)
C20_Witness ==
    /\ dispatched = "Frame"
    /\ Len(events_sink) = 1
    /\ events_sink[1].event.kind = "Moved"
    /\ events_sink[1].pointer_id = [Pen |-> "Eraser"]
    /\ tools["Eraser"][1].surface = Some("S1")
====
